---- MODULE Spec2Model ----
(***************************************************************************)
(* Model of panel/app/telegram_bot.py: the TelegramBot session lifecycle   *)
(* (start / stop), the automatic backup task (start_backup_task /          *)
(* stop_backup_task / _backup_loop), the settings cache they share, the    *)
(* command and callback handlers with their access check (is_admin), and   *)
(* create_backup with the files it leaves under /tmp.                      *)
(*                                                                         *)
(* Scheduling is asyncio's: one coroutine runs at a time and gives up the  *)
(* event loop only at an await that really suspends.  `cur` names the      *)
(* coroutine that holds the event loop (None when every coroutine is       *)
(* suspended); a coroutine takes a step only when cur is None or itself.   *)
(***************************************************************************)
EXTENDS Integers, Sequences, FiniteSets, TLC

VARIABLES
    TELEGRAM_AVAILABLE, \* module flag set at import (lines 17-23)
    repo,               \* value of the Settings row with key "telegram"
    bot,                \* the fields of the TelegramBot object
    apps,               \* the Application objects built so far
    tasks,              \* the _backup_loop tasks created so far
    files,              \* archive files present under /tmp
    callers,            \* coroutines that invoke the public methods
    cur,                \* coroutine holding the event loop
    disk,               \* backup sources, staging directory, archive contents
    now,                \* the second of the wall clock that names an archive
    handlers            \* coroutines of the command and callback handlers

vars == <<TELEGRAM_AVAILABLE, repo, bot, apps, tasks, files, callers, cur,
          disk, now, handlers>>

\* what no step of the lifecycle methods or of the loop touches
aside == <<TELEGRAM_AVAILABLE, now, handlers>>

----------------------------------------------------------------------------
(* Bounds of the model. *)

MaxApps == 2            \* Application objects ever built
MaxTasks == 2           \* _backup_loop tasks ever created

AppIds == 1..MaxApps
TaskIds == 1..MaxTasks
Callers == {"c1", "c2"}

MaxClock == 1           \* seconds the wall clock advances
Seconds == 0..MaxClock

\* line 404: /tmp/smite_backup_<timestamp>.zip, the timestamp to the second
Zip(second) == "zip" \o ToString(second)
Paths == {Zip(second) : second \in Seconds}

None == 0               \* Python None for a handle (application, backup_task)
NoToken == "None"       \* Python None for bot_token
Idle == "none"          \* no coroutine holds the event loop

----------------------------------------------------------------------------
(* Settings values.  An entry of admin_ids is a string or a number as the  *)
(* JSON column stored it; `text` is its decimal or literal rendering.      *)

StrId(s) == [kind |-> "str", text |-> s]
IntId(s) == [kind |-> "int", text |-> s]
Digits == {"1", "2"}

\* int(admin_id_str), line 166: raises ValueError on a non-numeric string
IntParses(entry) == entry.kind = "int" \/ entry.text \in Digits

AdminsOne == <<StrId("1")>>
AdminsThree == <<StrId("1"), StrId("x"), StrId("2")>>

NoRow == [absent |-> TRUE]

\* values of the row; a key the value lacks takes the default of its .get
SettingsValues ==
    { [enabled |-> FALSE, bot_token |-> "tok", admin_ids |-> AdminsOne,
       backup_enabled |-> TRUE, backup_interval |-> 30],
      [enabled |-> TRUE, bot_token |-> "", backup_enabled |-> TRUE],
      [enabled |-> TRUE, bot_token |-> "tok", admin_ids |-> AdminsThree,
       backup_enabled |-> TRUE, backup_interval |-> 2,
       backup_interval_unit |-> "hours"],
      [enabled |-> TRUE, bot_token |-> "tok", admin_ids |-> AdminsThree,
       backup_enabled |-> FALSE, backup_interval |-> 2,
       backup_interval_unit |-> "hours"] }

RepoValues == SettingsValues \cup {NoRow}

\* dict.get(key, default)
Get(value, key, default) == IF key \in DOMAIN value THEN value[key] ELSE default

\* what the Repository holds for backup_enabled
RepoBackupEnabled == Get(repo, "backup_enabled", FALSE)

Merge(a, b) == [k \in DOMAIN a |-> IF k \in DOMAIN b THEN b[k] ELSE a[k]]

\* the assignments of load_settings, lines 44-57
LoadedFields(value) ==
    IF "absent" \in DOMAIN value
    THEN [enabled |-> FALSE, bot_token |-> NoToken, admin_ids |-> <<>>,
          backup_enabled |-> FALSE, backup_interval |-> 60,
          backup_interval_unit |-> "minutes"]
    ELSE [enabled |-> Get(value, "enabled", FALSE),
          bot_token |-> Get(value, "bot_token", NoToken),
          admin_ids |-> Get(value, "admin_ids", <<>>),
          backup_enabled |-> Get(value, "backup_enabled", FALSE),
          backup_interval |-> Get(value, "backup_interval", 60),
          backup_interval_unit |-> Get(value, "backup_interval_unit", "minutes")]

\* truthiness of self.bot_token, line 71
TokenSet(tok) == tok # NoToken /\ tok # ""

----------------------------------------------------------------------------
(* create_backup, lines 343-418: returns the path of the archive it wrote, *)
(* or None (here "") when any step raised.                                 *)

NoPath == ""

\* what create_backup copies when present: ./data/smite.db, .env (lines
\* 352-358); the sources of lines 360-401 are staged the same way
Sources == {"db", "env"}

\* /tmp/smite_backup (line 349) and what it holds
NoStaging == [exists |-> FALSE, content |-> {}]

\* an archive under /tmp: the members written to it, whether the ZipFile was
\* closed after the walk of 407-411, the invocation that wrote it, whether
\* that invocation returned its path, and the members it took from what an
\* earlier invocation had left in the staging directory
NoZip == [content |-> {}, complete |-> FALSE, writer |-> "none",
          returned |-> FALSE, extra |-> {}]

\* the statement at which an I/O error is raised: mkdir (350), the first
\* copy (353-401), zipf.write (411), rmtree (413)
FailPoints == {"mkdir", "copy", "zip", "rmtree"}

\* lines 345-418 run without suspending (the body has no await): the disk
\* and /tmp after the call, and the value returned
CreateBackup(d, fs, second, who, fail) ==
    LET backup_file == Zip(second)
        staged == [exists |-> TRUE,
                   content |-> d.staging.content \cup d.sources]
        written == [content |-> staged.content, complete |-> TRUE,
                    writer |-> who, returned |-> FALSE,
                    extra |-> d.staging.content \ d.sources]
    IN CASE fail = "mkdir" ->
              [disk |-> d, files |-> fs, result |-> NoPath]
         [] fail = "copy" ->
              [disk |-> [d EXCEPT !.staging.exists = TRUE],
               files |-> fs, result |-> NoPath]
         [] fail = "zip" ->
              [disk |-> [d EXCEPT !.staging = staged,
                                  !.zips[backup_file] =
                                      [NoZip EXCEPT !.writer = who]],
               files |-> fs \cup {backup_file}, result |-> NoPath]
         [] fail = "rmtree" ->
              [disk |-> [d EXCEPT !.staging = staged,
                                  !.zips[backup_file] = written],
               files |-> fs \cup {backup_file}, result |-> NoPath]
         [] OTHER ->
              [disk |-> [d EXCEPT !.staging = NoStaging,
                                  !.zips[backup_file] =
                                      [written EXCEPT !.returned = TRUE]],
               files |-> fs \cup {backup_file}, result |-> backup_file]

\* os.remove(path)
Removed(d, path) == [d EXCEPT !.zips[path] = NoZip]

----------------------------------------------------------------------------
(* Objects. *)

NoApp == [built |-> FALSE, handlers |-> FALSE, initialized |-> FALSE,
          running |-> FALSE, polling |-> FALSE]

NoTask == [pc |-> "none", cancel |-> FALSE, sleep_seconds |-> 0,
           path |-> "", ids |-> <<>>, idx |-> 0,
           attempted |-> <<>>, cycle |-> "none", repo_off |-> FALSE]

NoCall == [op |-> "none", pc |-> "idle", stack |-> <<>>, app |-> None,
           task |-> None, ret |-> "none",
           \* history of the call in progress (not program state)
           restart |-> FALSE, my_app |-> None, bound |-> FALSE,
           spawned |-> FALSE, victim |-> None, swallowed |-> FALSE]

\* the coroutine of one update being handled: `user` is the sender's id and
\* `path` is backup_path; `reads` (queries made) and `produced` (create_backup
\* was called) are history, not program state.  The application is built
\* with its defaults (line 79): it handles one update at a time.
Handlers == {"h1"}

NoHandler == [op |-> "none", data |-> "", user |-> 0, pc |-> "idle",
              path |-> NoPath, reads |-> 0, produced |-> FALSE]

Done == {"cancelled", "returned"}
Alive(t) == tasks[t].pc \notin Done \cup {"none"}
AliveTasks == {t \in TaskIds : Alive(t)}

FreeApps == {a \in AppIds : ~apps[a].built}
FreeTasks == {t \in TaskIds : tasks[t].pc = "none"}

Sched(x) == cur = Idle \/ cur = x

\* A finished task that neither the handle nor an awaiting coroutine refers
\* to, and an application nothing refers to that holds no resource, are
\* garbage: their identities are free again.
CollectTasks(ts, handle, cs) ==
    [t \in TaskIds |->
        IF /\ ts[t].pc \in Done /\ t # handle
           /\ \A c \in Callers : cs[c].task # t /\ cs[c].victim # t
        THEN NoTask ELSE ts[t]]

CollectApps(as, handle, cs) ==
    [a \in AppIds |->
        IF /\ a # handle /\ \A c \in Callers : cs[c].app # a
           /\ ~as[a].initialized /\ ~as[a].running /\ ~as[a].polling
        THEN NoApp ELSE as[a]]

Finished(how) == [NoTask EXCEPT !.pc = how]

\* the object as __init__ leaves it (lines 29-37), nothing running
Constructed ==
    /\ bot = [application |-> None, enabled |-> FALSE, bot_token |-> NoToken,
              admin_ids |-> <<>>, backup_task |-> None,
              backup_enabled |-> FALSE, backup_interval |-> 60,
              backup_interval_unit |-> "minutes"]
    /\ apps = [a \in AppIds |-> NoApp]
    /\ tasks = [t \in TaskIds |-> NoTask]
    /\ files = {}
    /\ callers = [c \in Callers |-> NoCall]
    /\ cur = Idle
    /\ now = 0
    /\ handlers = [h \in Handlers |-> NoHandler]

\* a host with every source present, no staging directory and no archive,
\* on which the given I/O errors can occur
Host(faults) ==
    [sources |-> Sources, staging |-> NoStaging,
     zips |-> [p \in Paths |-> NoZip], faults |-> faults]

\* The lifecycle is explored on a host where create_backup either succeeds
\* or fails before it has written anything (the staging directory cannot be
\* made); SpecProducer explores its other failures.
Init ==
    /\ TELEGRAM_AVAILABLE \in BOOLEAN
    /\ repo \in RepoValues
    /\ Constructed
    /\ disk = Host({"mkdir"})

----------------------------------------------------------------------------
(* Calls and returns.  stack holds the call sites to return to; pc is the  *)
(* line the coroutine is at ("await:Lnn": suspended in the await of line   *)
(* nn; "return" / "raise": leaving the innermost function).                *)

Ops == {"start", "stop", "start_backup_task", "stop_backup_task"}

Entry(op) ==
    CASE op = "start" -> "L65"
      [] op = "stop" -> "L107"
      [] op = "start_backup_task" -> "L123"
      [] op = "stop_backup_task" -> "L132"

Upd(c, r) == callers' = [callers EXCEPT ![c] = Merge(@, r)]

Push(c, site) == Append(callers[c].stack, site)

\* where execution continues when the call made at `site` returns or raises
Continue(site, raised) ==
    CASE site = "L69" -> IF raised THEN "raise" ELSE "L71"
      [] site = "L76" -> IF raised THEN "raise" ELSE "L79"
      [] site = "L95" -> IF raised THEN "L100" ELSE "L98"
      [] site = "L102" -> IF raised THEN "raise" ELSE "L103"
      [] site = "L107" -> IF raised THEN "raise" ELSE "L109"
      [] site = "L123" -> IF raised THEN "raise" ELSE "L124"
      [] site = "L124" -> IF raised THEN "raise" ELSE "L126"

\* a public method is invoked: a new coroutine starts running
Begin(c, op) ==
    /\ cur = Idle
    /\ callers[c].pc = "idle"
    /\ callers' = [callers EXCEPT ![c] =
          Merge(NoCall,
                [op |-> op, pc |-> Entry(op), stack |-> <<"top">>,
                 restart |-> (callers[c].op = "start" /\ callers[c].ret = "True"),
                 victim |-> IF /\ op = "stop" /\ bot.backup_task # None
                               /\ Alive(bot.backup_task)
                            THEN bot.backup_task ELSE None])]
    /\ cur' = c
    /\ UNCHANGED <<aside, disk, repo, bot, apps, tasks, files>>

\* a function returns or an exception leaves it
Return(c) ==
    /\ cur = c
    /\ callers[c].pc \in {"return", "raise"}
    /\ LET st == callers[c].stack
           site == st[Len(st)]
           raised == callers[c].pc = "raise"
       IN IF site = "top"
          THEN /\ callers' = [callers EXCEPT ![c] =
                     [NoCall EXCEPT !.op = callers[c].op,
                                    !.ret = IF raised THEN "raised"
                                            ELSE callers[c].ret]]
               /\ tasks' = CollectTasks(tasks, bot.backup_task, callers')
               /\ cur' = Idle
          ELSE /\ Upd(c, [pc |-> Continue(site, raised),
                          stack |-> SubSeq(st, 1, Len(st) - 1)])
               /\ UNCHANGED tasks
               /\ cur' = c
    /\ UNCHANGED <<aside, disk, repo, bot, apps, files>>

----------------------------------------------------------------------------
(* load_settings, lines 39-57, awaited by start (69), start_backup_task   *)
(* (124) and _backup_loop (145).                                           *)

LoadSettingsOk(c) ==
    /\ Sched(c)
    /\ callers[c].pc = "await:load"
    /\ bot' = Merge(bot, LoadedFields(repo))
    /\ Upd(c, [pc |-> "return"])
    /\ cur' = c
    /\ UNCHANGED <<aside, disk, repo, apps, tasks, files>>

\* the session or the query raises (database error)
LoadSettingsRaise(c) ==
    /\ Sched(c)
    /\ callers[c].pc = "await:load"
    /\ Upd(c, [pc |-> "raise"])
    /\ cur' = c
    /\ UNCHANGED <<aside, disk, repo, bot, apps, tasks, files>>

----------------------------------------------------------------------------
(* start, lines 63-103 *)

StartAvailable(c) ==
    /\ cur = c
    /\ callers[c].pc = "L65"
    /\ IF ~TELEGRAM_AVAILABLE
       THEN Upd(c, [pc |-> "return", ret |-> "False@67"]) /\ cur' = c
       ELSE Upd(c, [pc |-> "await:load", stack |-> Push(c, "L69")]) /\ cur' = Idle
    /\ UNCHANGED <<aside, disk, repo, bot, apps, tasks, files>>

\* start that drops the application handle when the settings are disabled
StartGateDropsSession(c) ==
    /\ cur = c
    /\ callers[c].pc = "L71"
    /\ IF ~bot.enabled \/ ~TokenSet(bot.bot_token)
       THEN /\ Upd(c, [pc |-> "return", ret |-> "False@73"])
            /\ bot' = [bot EXCEPT !.application = None]
       ELSE /\ Upd(c, [pc |-> "L107", stack |-> Push(c, "L76")])
            /\ UNCHANGED bot
    /\ UNCHANGED <<aside, disk, repo, apps, tasks, files, cur>>

\* start without the test of line 71
StartGateUnchecked(c) ==
    /\ cur = c
    /\ callers[c].pc = "L71"
    /\ Upd(c, [pc |-> "L107", stack |-> Push(c, "L76")])
    /\ UNCHANGED <<aside, disk, repo, bot, apps, tasks, files, cur>>

StartGate(c) ==
    /\ cur = c
    /\ callers[c].pc = "L71"
    /\ IF ~bot.enabled \/ ~TokenSet(bot.bot_token)
       THEN Upd(c, [pc |-> "return", ret |-> "False@73"])
       ELSE Upd(c, [pc |-> "L107", stack |-> Push(c, "L76")])
    /\ UNCHANGED <<aside, disk, repo, bot, apps, tasks, files, cur>>

\* lines 79-87: build the application and register the seven handlers
StartBuild(c) ==
    /\ cur = c
    /\ callers[c].pc = "L79"
    /\ \E a \in FreeApps :
          /\ \A b \in FreeApps : a <= b
          /\ \/ /\ apps' = CollectApps(
                              [apps EXCEPT ![a] = [NoApp EXCEPT !.built = TRUE,
                                                                !.handlers = TRUE]],
                              a, callers)
                /\ bot' = [bot EXCEPT !.application = a]
                /\ Upd(c, [pc |-> "call:L89", my_app |-> a, bound |-> TRUE])
             \* add_handler raises after the application was assigned
             \/ /\ apps' = CollectApps(
                              [apps EXCEPT ![a] = [NoApp EXCEPT !.built = TRUE]],
                              a, callers)
                /\ bot' = [bot EXCEPT !.application = a]
                /\ Upd(c, [pc |-> "L100", my_app |-> a, bound |-> TRUE])
             \* builder().token().build() raises: nothing was assigned
             \/ /\ UNCHANGED <<apps, bot>>
                /\ Upd(c, [pc |-> "L100"])
    /\ UNCHANGED <<aside, disk, repo, tasks, files, cur>>

StartCallBackupTask(c) ==
    /\ cur = c
    /\ callers[c].pc = "L95"
    /\ Upd(c, [pc |-> "L123", stack |-> Push(c, "L95")])
    /\ UNCHANGED <<aside, disk, repo, bot, apps, tasks, files, cur>>

StartReturnTrue(c) ==
    /\ cur = c
    /\ callers[c].pc = "L98"
    /\ Upd(c, [pc |-> "return", ret |-> "True"])
    /\ UNCHANGED <<aside, disk, repo, bot, apps, tasks, files, cur>>

\* except Exception, lines 99-102: clean up on failure
StartExcept(c) ==
    /\ cur = c
    /\ callers[c].pc = "L100"
    /\ Upd(c, [pc |-> "L107", stack |-> Push(c, "L102")])
    /\ UNCHANGED <<aside, disk, repo, bot, apps, tasks, files, cur>>

StartReturnFalse(c) ==
    /\ cur = c
    /\ callers[c].pc = "L103"
    /\ Upd(c, [pc |-> "return", ret |-> "False@103"])
    /\ UNCHANGED <<aside, disk, repo, bot, apps, tasks, files, cur>>

----------------------------------------------------------------------------
(* The awaited calls into the Application: initialize (89), start (90),   *)
(* updater.start_polling (93), updater.stop (112), stop (113), shutdown    *)
(* (114).  Each evaluates self.application when it is made, suspends, and  *)
(* then completes or raises; a call that raises has changed nothing.       *)

LibSites == {"L89", "L90", "L93", "L112", "L113", "L114"}

LibEffect(site, app) ==
    CASE site = "L89" -> [app EXCEPT !.initialized = TRUE]
      [] site = "L90" -> [app EXCEPT !.running = TRUE]
      [] site = "L93" -> [app EXCEPT !.polling = TRUE]
      [] site = "L112" -> [app EXCEPT !.polling = FALSE]
      [] site = "L113" -> [app EXCEPT !.running = FALSE]
      [] site = "L114" -> [app EXCEPT !.initialized = FALSE]

LibNext(site) ==
    CASE site = "L89" -> "call:L90"
      [] site = "L90" -> "call:L93"
      [] site = "L93" -> "L95"
      [] site = "L112" -> "call:L113"
      [] site = "L113" -> "call:L114"
      [] site = "L114" -> "L118"

\* the except clause that catches an exception raised at the site
LibHandler(site) ==
    IF site \in {"L89", "L90", "L93"} THEN "L100" ELSE "L116"

LibCall(c) ==
    /\ cur = c
    /\ \E site \in LibSites :
          /\ callers[c].pc = "call:" \o site
          /\ IF bot.application = None
             THEN \* AttributeError: 'NoneType' object has no attribute ...
                  Upd(c, [pc |-> LibHandler(site)]) /\ cur' = c
             ELSE Upd(c, [pc |-> "await:" \o site, app |-> bot.application,
                          bound |-> TRUE])
                  /\ cur' = Idle
    /\ UNCHANGED <<aside, disk, repo, bot, apps, tasks, files>>

LibReturn(c) ==
    /\ Sched(c)
    /\ \E site \in LibSites :
          /\ callers[c].pc = "await:" \o site
          /\ Upd(c, [pc |-> LibNext(site), app |-> None])
          /\ apps' = CollectApps(
                        [apps EXCEPT ![callers[c].app] = LibEffect(site, @)],
                        bot.application, callers')
    /\ cur' = c
    /\ UNCHANGED <<aside, disk, repo, bot, tasks, files>>

LibRaise(c) ==
    /\ Sched(c)
    /\ \E site \in LibSites :
          /\ callers[c].pc = "await:" \o site
          /\ Upd(c, [pc |-> LibHandler(site), app |-> None])
    /\ apps' = CollectApps(apps, bot.application, callers')
    /\ cur' = c
    /\ UNCHANGED <<aside, disk, repo, bot, tasks, files>>

----------------------------------------------------------------------------
(* stop, lines 105-119 *)

\* stop that leaves the loop task alone
StopSkipsBackupTask(c) ==
    /\ cur = c
    /\ callers[c].pc = "L107"
    /\ Upd(c, [pc |-> "L109"])
    /\ UNCHANGED <<aside, disk, repo, bot, apps, tasks, files, cur>>

StopCallBackupTask(c) ==
    /\ cur = c
    /\ callers[c].pc = "L107"
    /\ Upd(c, [pc |-> "L132", stack |-> Push(c, "L107")])
    /\ UNCHANGED <<aside, disk, repo, bot, apps, tasks, files, cur>>

\* lines 109-112
StopTeardown(c) ==
    /\ cur = c
    /\ callers[c].pc = "L109"
    /\ IF bot.application = None
       THEN Upd(c, [pc |-> "return"]) /\ cur' = c
       ELSE IF apps[bot.application].polling
            THEN Upd(c, [pc |-> "await:L112", app |-> bot.application,
                         bound |-> TRUE])
                 /\ cur' = Idle
            ELSE Upd(c, [pc |-> "call:L113"]) /\ cur' = c
    /\ UNCHANGED <<aside, disk, repo, bot, apps, tasks, files>>

\* stop without the except and finally clauses: the error leaves stop
StopExceptRaises(c) ==
    /\ cur = c
    /\ callers[c].pc = "L116"
    /\ Upd(c, [pc |-> "raise", swallowed |-> TRUE])
    /\ UNCHANGED <<aside, disk, repo, bot, apps, tasks, files, cur>>

\* except Exception, lines 115-116: log and swallow
StopExcept(c) ==
    /\ cur = c
    /\ callers[c].pc = "L116"
    /\ Upd(c, [pc |-> "L118", swallowed |-> TRUE])
    /\ UNCHANGED <<aside, disk, repo, bot, apps, tasks, files, cur>>

\* finally, lines 117-119
StopFinally(c) ==
    /\ cur = c
    /\ callers[c].pc = "L118"
    /\ bot' = [bot EXCEPT !.application = None]
    /\ apps' = CollectApps(apps, None, callers)
    /\ Upd(c, [pc |-> "return"])
    /\ UNCHANGED <<aside, disk, repo, tasks, files, cur>>

----------------------------------------------------------------------------
(* start_backup_task, lines 121-128 *)

BackupTaskCallStop(c) ==
    /\ cur = c
    /\ callers[c].pc = "L123"
    /\ Upd(c, [pc |-> "L132", stack |-> Push(c, "L123")])
    /\ UNCHANGED <<aside, disk, repo, bot, apps, tasks, files, cur>>

BackupTaskCallLoad(c) ==
    /\ cur = c
    /\ callers[c].pc = "L124"
    /\ Upd(c, [pc |-> "await:load", stack |-> Push(c, "L124")])
    /\ cur' = Idle
    /\ UNCHANGED <<aside, disk, repo, bot, apps, tasks, files>>

\* start_backup_task without the test of line 126
BackupTaskCreateAlways(c) ==
    /\ cur = c
    /\ callers[c].pc = "L126"
    /\ \E t \in FreeTasks :
          /\ \A u \in FreeTasks : t <= u
          /\ tasks' = CollectTasks(
                         [tasks EXCEPT ![t] = [NoTask EXCEPT !.pc = "new"]],
                         t, callers)
          /\ bot' = [bot EXCEPT !.backup_task = t]
          /\ Upd(c, [pc |-> "return", spawned |-> TRUE])
    /\ UNCHANGED <<aside, disk, repo, apps, files, cur>>

\* lines 126-128
BackupTaskCreate(c) ==
    /\ cur = c
    /\ callers[c].pc = "L126"
    /\ IF bot.backup_enabled /\ bot.admin_ids # <<>>
       THEN \E t \in FreeTasks :
               /\ \A u \in FreeTasks : t <= u
               /\ tasks' = CollectTasks(
                              [tasks EXCEPT ![t] = [NoTask EXCEPT !.pc = "new"]],
                              t, callers)
               /\ bot' = [bot EXCEPT !.backup_task = t]
               /\ Upd(c, [pc |-> "return", spawned |-> TRUE])
       ELSE /\ UNCHANGED <<tasks, bot>>
            /\ Upd(c, [pc |-> "return"])
    /\ UNCHANGED <<aside, disk, repo, apps, files, cur>>

----------------------------------------------------------------------------
(* stop_backup_task, lines 130-139 *)

\* lines 132-135: cancel the task and await it; awaiting a task that has
\* already finished does not suspend
StopBackupTaskCancel(c) ==
    /\ cur = c
    /\ callers[c].pc = "L132"
    /\ IF bot.backup_task = None
       THEN Upd(c, [pc |-> "return"]) /\ cur' = c /\ UNCHANGED tasks
       ELSE IF Alive(bot.backup_task)
            THEN /\ tasks' = [tasks EXCEPT ![bot.backup_task].cancel = TRUE]
                 /\ Upd(c, [pc |-> "await:L135", task |-> bot.backup_task])
                 /\ cur' = Idle
            ELSE /\ UNCHANGED tasks
                 /\ Upd(c, [pc |-> "L138"])
                 /\ cur' = c
    /\ UNCHANGED <<aside, disk, repo, bot, apps, files>>

\* stop_backup_task that cancels without awaiting the task
StopBackupTaskNoAwait(c) ==
    /\ Sched(c)
    /\ callers[c].pc = "await:L135"
    /\ Upd(c, [pc |-> "L138", task |-> None])
    /\ tasks' = CollectTasks(tasks, bot.backup_task, callers')
    /\ cur' = c
    /\ UNCHANGED <<aside, disk, repo, bot, apps, files>>

\* line 135 resumes when the awaited task has finished; its CancelledError
\* is caught at 136
StopBackupTaskAwait(c) ==
    /\ Sched(c)
    /\ callers[c].pc = "await:L135"
    /\ tasks[callers[c].task].pc \in Done
    /\ Upd(c, [pc |-> "L138", task |-> None])
    /\ tasks' = CollectTasks(tasks, bot.backup_task, callers')
    /\ cur' = c
    /\ UNCHANGED <<aside, disk, repo, bot, apps, files>>

\* line 138
StopBackupTaskClear(c) ==
    /\ cur = c
    /\ callers[c].pc = "L138"
    /\ bot' = [bot EXCEPT !.backup_task = None]
    /\ tasks' = CollectTasks(tasks, None, callers)
    /\ Upd(c, [pc |-> "return"])
    /\ UNCHANGED <<aside, disk, repo, apps, files, cur>>

----------------------------------------------------------------------------
(* _backup_loop, lines 141-186.  The task is suspended at the await of     *)
(* load_settings (145), of a sleep (148, 156) or of send_document (168);   *)
(* Task.cancel() makes its next resumption raise CancelledError, which no  *)
(* `except Exception` of the loop catches.                                 *)

Suspended == {"await:load", "sleep_fallback", "sleep_interval", "await:L168"}

\* the interval taken as minutes whatever the unit
SleepSecondsAsMinutes(interval, unit) == interval * 60

\* lines 151-154
SleepSeconds(interval, unit) ==
    IF unit = "hours" THEN interval * 3600 ELSE interval * 60

\* the first entry from index i on whose try block (165-173) reaches the
\* await of send_document; Len(ids) + 1 when every remaining one raises first
RECURSIVE NextSend(_, _, _)
NextSend(ids, i, sendable) ==
    IF i > Len(ids) THEN i
    ELSE IF sendable /\ IntParses(ids[i]) THEN i
    ELSE NextSend(ids, i + 1, sendable)

\* lines 164-179 from entry i on, up to the next suspension: the task after
\* it.  open() raises when the archive is gone and self.application.bot
\* raises when the handle is None; both are caught at 174.
Dispatch(task, i, fs, application) ==
    LET j == NextSend(task.ids, i, task.path \in fs /\ application # None)
    IN IF j > Len(task.ids)
       THEN [task EXCEPT !.pc = "await:load", !.idx = j,
                         !.attempted = task.ids]
       ELSE [task EXCEPT !.pc = "await:L168", !.idx = j,
                         !.attempted = SubSeq(task.ids, 1, j)]

\* lines 177-178, reached when the for loop has ended
FilesAfterDispatch(task, fs) ==
    IF task.pc = "await:load" THEN fs \ {task.path} ELSE fs

DiskAfterDispatch(task, d) ==
    IF task.pc = "await:load" THEN Removed(d, task.path) ELSE d

\* the task is run for the first time, or was cancelled before that
BackupLoopStart(t) ==
    /\ cur = Idle
    /\ tasks[t].pc = "new"
    /\ tasks' = IF tasks[t].cancel
                 THEN CollectTasks([tasks EXCEPT ![t] = Finished("cancelled")],
                                   bot.backup_task, callers)
                 ELSE [tasks EXCEPT ![t].pc = "await:load"]
    /\ UNCHANGED <<aside, disk, repo, bot, apps, files, callers, cur>>

\* lines 182-184: CancelledError is raised at the await, logged and re-raised
BackupLoopCancelled(t) ==
    /\ cur = Idle
    /\ tasks[t].pc \in Suspended
    /\ tasks[t].cancel
    /\ tasks' = CollectTasks([tasks EXCEPT ![t] = Finished("cancelled")],
                              bot.backup_task, callers)
    /\ UNCHANGED <<aside, disk, repo, bot, apps, files, callers, cur>>

\* lines 145-156
BackupLoopLoad(t) ==
    /\ cur = Idle
    /\ tasks[t].pc = "await:load"
    /\ ~tasks[t].cancel
    /\ bot' = Merge(bot, LoadedFields(repo))
    /\ tasks' = [tasks EXCEPT ![t] =
          IF ~bot'.backup_enabled \/ bot'.admin_ids = <<>>
          THEN [NoTask EXCEPT !.pc = "sleep_fallback", !.sleep_seconds = 60]
          ELSE [NoTask EXCEPT !.pc = "sleep_interval",
                              !.sleep_seconds =
                                  SleepSeconds(bot'.backup_interval,
                                               bot'.backup_interval_unit)]]
    /\ UNCHANGED <<aside, disk, repo, apps, files, callers, cur>>

\* load_settings raises at 145: caught by the outer handler, 185-186, which
\* logs; the coroutine then returns
BackupLoopLoadRaise(t) ==
    /\ cur = Idle
    /\ tasks[t].pc = "await:load"
    /\ ~tasks[t].cancel
    /\ tasks' = CollectTasks([tasks EXCEPT ![t] = Finished("returned")],
                              bot.backup_task, callers)
    /\ UNCHANGED <<aside, disk, repo, bot, apps, files, callers, cur>>

\* a sleep that ends normally although the task was cancelled
BackupLoopWakeFallbackUncancelled(t) ==
    /\ cur = Idle
    /\ tasks[t].pc = "sleep_fallback"
    /\ tasks' = [tasks EXCEPT ![t].pc = "await:load"]
    /\ UNCHANGED <<aside, disk, repo, bot, apps, files, callers, cur>>

\* lines 148-149
BackupLoopWakeFallback(t) ==
    /\ cur = Idle
    /\ tasks[t].pc = "sleep_fallback"
    /\ ~tasks[t].cancel
    /\ tasks' = [tasks EXCEPT ![t].pc = "await:load"]
    /\ UNCHANGED <<aside, disk, repo, bot, apps, files, callers, cur>>

\* lines 156-179: the sleep ends; the cached backup_enabled is tested, the
\* archive is made and the dispatch runs up to its first suspension
BackupLoopWakeInterval(t) ==
    /\ cur = Idle
    /\ tasks[t].pc = "sleep_interval"
    /\ ~tasks[t].cancel
    /\ IF ~bot.backup_enabled
       THEN /\ tasks' = [tasks EXCEPT ![t].pc = "await:load",
                                      ![t].cycle = "skipped",
                                      ![t].repo_off = ~RepoBackupEnabled]
            /\ UNCHANGED <<files, disk>>
       ELSE \E fail \in {"none"} \cup disk.faults :
               LET made == CreateBackup(disk, files, now, "loop", fail)
                   backup_path == made.result
                   woke == [tasks[t] EXCEPT !.repo_off = ~RepoBackupEnabled,
                                            !.path = backup_path,
                                            !.ids = IF backup_path = NoPath
                                                    THEN <<>> ELSE bot.admin_ids]
               IN IF backup_path = NoPath
                  THEN /\ tasks' = [tasks EXCEPT ![t] =
                              [woke EXCEPT !.pc = "await:load",
                                           !.cycle = "failed"]]
                       /\ files' = made.files
                       /\ disk' = made.disk
                  ELSE IF bot.application = None
                  THEN /\ tasks' = [tasks EXCEPT ![t] =
                              [woke EXCEPT !.pc = "await:load",
                                           !.cycle = "undelivered"]]
                       /\ files' = made.files
                       /\ disk' = made.disk
                  ELSE LET sent == Dispatch([woke EXCEPT !.cycle = "dispatch"],
                                            1, made.files, bot.application)
                       IN /\ tasks' = [tasks EXCEPT ![t] = sent]
                          /\ files' = FilesAfterDispatch(sent, made.files)
                          /\ disk' = DiskAfterDispatch(sent, made.disk)
    /\ UNCHANGED <<aside, repo, bot, apps, callers, cur>>

\* send_document returns, line 168: the for loop goes on
BackupLoopSendReturn(t) ==
    /\ cur = Idle
    /\ tasks[t].pc = "await:L168"
    /\ ~tasks[t].cancel
    /\ LET sent == Dispatch(tasks[t], tasks[t].idx + 1, files, bot.application)
       IN /\ tasks' = [tasks EXCEPT ![t] = sent]
          /\ files' = FilesAfterDispatch(sent, files)
          /\ disk' = DiskAfterDispatch(sent, disk)
    /\ UNCHANGED <<aside, repo, bot, apps, callers, cur>>

\* a delivery failure that leaves the for loop (caught at 180 only)
BackupLoopSendRaiseAborts(t) ==
    /\ cur = Idle
    /\ tasks[t].pc = "await:L168"
    /\ ~tasks[t].cancel
    /\ tasks' = [tasks EXCEPT ![t].pc = "await:load"]
    /\ UNCHANGED <<aside, disk, repo, bot, apps, files, callers, cur>>

\* send_document raises: caught and logged at 174-175, the for loop goes on
BackupLoopSendRaise(t) ==
    /\ cur = Idle
    /\ tasks[t].pc = "await:L168"
    /\ ~tasks[t].cancel
    /\ LET sent == Dispatch(tasks[t], tasks[t].idx + 1, files, bot.application)
       IN /\ tasks' = [tasks EXCEPT ![t] = sent]
          /\ files' = FilesAfterDispatch(sent, files)
          /\ disk' = DiskAfterDispatch(sent, disk)
    /\ UNCHANGED <<aside, repo, bot, apps, callers, cur>>

----------------------------------------------------------------------------
(* The command and callback handlers, lines 188-341 and 420-610.  The      *)
(* application runs a handler for each update it receives while polling;   *)
(* a handler is suspended at the await of a reply, of a query or of the    *)
(* document upload.                                                        *)

Users == {1, 3}         \* update.effective_user.id / query.from_user.id

Commands == {"cmd_start", "cmd_help", "cmd_nodes", "cmd_tunnels",
             "cmd_status", "cmd_backup"}

CallbackData == {"node_info_1", "tunnel_info_1", "cmd_nodes", "cmd_tunnels",
                 "cmd_backup", "cmd_status", "other"}

\* str(user_id)
Str(user_id) == StrId(ToString(user_id))

\* line 61: str(user_id) in self.admin_ids; list membership compares with
\* ==, and a str never equals an int
is_admin(user_id, admin_ids) ==
    \E k \in 1..Len(admin_ids) : admin_ids[k] = Str(user_id)

\* the body a handler runs once the sender was admitted: the command's own
\* (lines 194, 205, 222, 255, 289, 325) or the branch of lines 431-444
Route(op, data) ==
    IF op # "handle_callback" THEN op
    ELSE CASE data = "node_info_1" -> "show_node_info"
           [] data = "tunnel_info_1" -> "show_tunnel_info"
           [] data = "cmd_nodes" -> "cmd_nodes_callback"
           [] data = "cmd_tunnels" -> "cmd_tunnels_callback"
           [] data = "cmd_backup" -> "cmd_backup_callback"
           [] data = "cmd_status" -> "cmd_status_callback"
           [] OTHER -> "return"

\* session.execute calls of a body (lines 223, 256, 290-293, 449, 477, 501,
\* 531, 583-586)
Queries(route) ==
    CASE route \in {"cmd_status", "cmd_status_callback"} -> 2
      [] route \in {"cmd_nodes", "cmd_tunnels", "show_node_info",
                    "show_tunnel_info", "cmd_nodes_callback",
                    "cmd_tunnels_callback"} -> 1
      [] OTHER -> 0

\* the first await of a body
FirstAwait(route) ==
    CASE route = "return" -> "idle"
      [] route \in {"cmd_backup", "cmd_backup_callback"} -> "await:creating"
      [] Queries(route) > 0 -> "await:read"
      [] OTHER -> "await:reply"

\* the access check and what follows it up to the next await: the denial of
\* lines 190-192 (218-220, ..., 425-427) or the start of the body
\* (AfterCheck)
\* a handler that never calls is_admin
AfterCheckAdmitsAll(r) ==
    IF Route(r.op, r.data) = "return"
    THEN NoHandler
    ELSE [r EXCEPT !.pc = FirstAwait(Route(r.op, r.data))]

\* an access check that reads the authorized list of the Repository
AfterCheckAgainstRepository(r) ==
    IF ~is_admin(r.user, LoadedFields(repo).admin_ids)
    THEN [r EXCEPT !.pc = "await:deny"]
    ELSE IF Route(r.op, r.data) = "return"
    THEN NoHandler
    ELSE [r EXCEPT !.pc = FirstAwait(Route(r.op, r.data))]

AfterCheck(r) ==
    IF ~is_admin(r.user, bot.admin_ids)
    THEN [r EXCEPT !.pc = "await:deny"]
    ELSE IF Route(r.op, r.data) = "return"
    THEN NoHandler
    ELSE [r EXCEPT !.pc = FirstAwait(Route(r.op, r.data))]

\* the updates a chat can send: a command or a button press, and its sender
AllUpdates ==
    {[op |-> op, data |-> "", user |-> user] :
        op \in Commands, user \in Users}
    \cup {[op |-> "handle_callback", data |-> data, user |-> user] :
             data \in CallbackData, user \in Users}

\* /backup and the "Create Backup" button
BackupUpdates ==
    {u \in AllUpdates :
        Route(u.op, u.data) \in {"cmd_backup", "cmd_backup_callback"}}

\* an update arrives while an application with the handlers of lines 81-87
\* is polling; a callback query first awaits query.answer() (423)
HandlerInvoke(h, updates) ==
    /\ cur = Idle
    /\ handlers[h].pc = "idle"
    /\ \E a \in AppIds : apps[a].polling /\ apps[a].handlers
    /\ \E u \in updates :
          LET r == [NoHandler EXCEPT !.op = u.op, !.data = u.data,
                                     !.user = u.user]
          IN handlers' = [handlers EXCEPT ![h] =
                IF u.op = "handle_callback"
                THEN [r EXCEPT !.pc = "await:answer"]
                ELSE AfterCheck(r)]
    /\ UNCHANGED <<TELEGRAM_AVAILABLE, repo, bot, apps, tasks, files, callers,
                   cur, disk, now>>

\* query.answer() returns, lines 423-444
HandlerAnswered(h) ==
    /\ cur = Idle
    /\ handlers[h].pc = "await:answer"
    /\ handlers' = [handlers EXCEPT ![h] = AfterCheck(@)]
    /\ UNCHANGED <<TELEGRAM_AVAILABLE, repo, bot, apps, tasks, files, callers,
                   cur, disk, now>>

\* an awaited call outside any try block raises (423, a reply, a query):
\* the exception leaves the handler
HandlerRaise(h) ==
    /\ cur = Idle
    /\ handlers[h].pc \in {"await:answer", "await:read", "await:creating",
                           "await:reply"}
    /\ handlers' = [handlers EXCEPT ![h] = NoHandler]
    /\ UNCHANGED <<TELEGRAM_AVAILABLE, repo, bot, apps, tasks, files, callers,
                   cur, disk, now>>

\* the denial was sent (or could not be): return
HandlerDenied(h) ==
    /\ cur = Idle
    /\ handlers[h].pc = "await:deny"
    /\ handlers' = [handlers EXCEPT ![h] = NoHandler]
    /\ UNCHANGED <<TELEGRAM_AVAILABLE, repo, bot, apps, tasks, files, callers,
                   cur, disk, now>>

\* session.execute returns: the next query, or the reply with the result
HandlerRead(h) ==
    /\ cur = Idle
    /\ handlers[h].pc = "await:read"
    /\ LET r == handlers[h]
           n == r.reads + 1
       IN handlers' = [handlers EXCEPT ![h] =
              IF n < Queries(Route(r.op, r.data))
              THEN [r EXCEPT !.reads = n]
              ELSE [r EXCEPT !.reads = n, !.pc = "await:reply"]]
    /\ UNCHANGED <<TELEGRAM_AVAILABLE, repo, bot, apps, tasks, files, callers,
                   cur, disk, now>>

\* the last reply of a body returns
HandlerReplied(h) ==
    /\ cur = Idle
    /\ handlers[h].pc = "await:reply"
    /\ handlers' = [handlers EXCEPT ![h] = NoHandler]
    /\ UNCHANGED <<TELEGRAM_AVAILABLE, repo, bot, apps, tasks, files, callers,
                   cur, disk, now>>

\* lines 327-338 and 563-575 up to the upload: "Creating backup..." was
\* sent, create_backup runs, the archive is opened and reply_document awaited
HandlerCreate(h) ==
    /\ cur = Idle
    /\ handlers[h].pc = "await:creating"
    /\ \E fail \in {"none"} \cup disk.faults :
          LET made == CreateBackup(disk, files, now, h, fail)
          IN /\ disk' = made.disk
             /\ files' = made.files
             /\ handlers' = [handlers EXCEPT ![h] =
                   IF made.result = NoPath
                   THEN [@ EXCEPT !.pc = "await:reply", !.produced = TRUE]
                   ELSE [@ EXCEPT !.pc = "await:send", !.produced = TRUE,
                                  !.path = made.result]]
    /\ UNCHANGED <<TELEGRAM_AVAILABLE, repo, bot, apps, tasks, callers, cur,
                   now>>

\* reply_document returns: os.remove (336, 572), which raises when the file
\* is gone (caught at 339, 576); the callback then edits its message
HandlerSent(h) ==
    /\ cur = Idle
    /\ handlers[h].pc = "await:send"
    /\ LET r == handlers[h]
       IN /\ files' = files \ {r.path}
          /\ disk' = IF r.path \in files THEN Removed(disk, r.path) ELSE disk
          /\ handlers' = [handlers EXCEPT ![h] =
                IF r.op = "cmd_backup" /\ r.path \in files
                THEN NoHandler
                ELSE [r EXCEPT !.pc = "await:reply"]]
    /\ UNCHANGED <<TELEGRAM_AVAILABLE, repo, bot, apps, tasks, callers, cur,
                   now>>

\* reply_document raises: caught at 339 (576), which replies with the error
HandlerSendRaise(h) ==
    /\ cur = Idle
    /\ handlers[h].pc = "await:send"
    /\ handlers' = [handlers EXCEPT ![h].pc = "await:reply"]
    /\ UNCHANGED <<TELEGRAM_AVAILABLE, repo, bot, apps, tasks, files, callers,
                   cur, disk, now>>

\* the handling of /backup and of the "Create Backup" button
BackupHandlerStep(h) ==
    \/ HandlerInvoke(h, BackupUpdates)
    \/ HandlerAnswered(h) \/ HandlerRaise(h) \/ HandlerDenied(h)
    \/ HandlerCreate(h) \/ HandlerSent(h) \/ HandlerSendRaise(h)
    \/ HandlerReplied(h)

\* the handling of any update
HandlerStep(h) ==
    \/ HandlerInvoke(h, AllUpdates)
    \/ HandlerAnswered(h) \/ HandlerRaise(h) \/ HandlerDenied(h)
    \/ HandlerRead(h)
    \/ HandlerCreate(h) \/ HandlerSent(h) \/ HandlerSendRaise(h)
    \/ HandlerReplied(h)

----------------------------------------------------------------------------
(* The clock advances; a backup source is deleted from the host. *)

Tick ==
    /\ cur = Idle
    /\ now < MaxClock
    /\ now' = now + 1
    /\ UNCHANGED <<TELEGRAM_AVAILABLE, repo, bot, apps, tasks, files, callers,
                   cur, disk, handlers>>

SourceRemoved ==
    /\ cur = Idle
    /\ \E source \in disk.sources :
          disk' = [disk EXCEPT !.sources = @ \ {source}]
    /\ UNCHANGED <<TELEGRAM_AVAILABLE, repo, bot, apps, tasks, files, callers,
                   cur, now, handlers>>

----------------------------------------------------------------------------
(* The operator changes the settings row at runtime. *)

RepoUpdate ==
    /\ cur = Idle
    /\ repo' \in RepoValues \ {repo}
    /\ UNCHANGED <<aside, disk, bot, apps, tasks, files, callers, cur>>

----------------------------------------------------------------------------

\* steps of a caller in which no awaited call raises
CallerRun(c) ==
    \/ Return(c)
    \/ LoadSettingsOk(c)
    \/ StartAvailable(c) \/ StartGate(c) \/ StartBuild(c)
    \/ StartCallBackupTask(c) \/ StartReturnTrue(c)
    \/ StartExcept(c) \/ StartReturnFalse(c)
    \/ LibCall(c) \/ LibReturn(c)
    \/ StopCallBackupTask(c) \/ StopTeardown(c) \/ StopFinally(c)
    \/ BackupTaskCallStop(c) \/ BackupTaskCallLoad(c) \/ BackupTaskCreate(c)
    \/ StopBackupTaskCancel(c) \/ StopBackupTaskAwait(c)
    \/ StopBackupTaskClear(c)

CallerStep(c) ==
    \/ CallerRun(c)
    \/ LoadSettingsRaise(c) \/ LibRaise(c) \/ StopExcept(c)

\* steps of the loop while the settings allow backups and nothing raises
TaskRun(t) ==
    \/ BackupLoopStart(t) \/ BackupLoopCancelled(t)
    \/ BackupLoopLoad(t)
    \/ BackupLoopWakeInterval(t) \/ BackupLoopSendReturn(t)

TaskStep(t) ==
    \/ TaskRun(t)
    \/ BackupLoopWakeFallback(t)
    \/ BackupLoopLoadRaise(t) \/ BackupLoopSendRaise(t)

\* The public methods are invoked one at a time (a method is invoked only
\* when the previous invocation has returned), while the loop task runs and
\* the operator edits the settings.
Next ==
    \/ \E op \in Ops : Begin("c1", op)
    \/ CallerStep("c1")
    \/ \E t \in TaskIds : TaskStep(t)
    \/ RepoUpdate

Spec == Init /\ [][Next]_vars

\* Only start() and stop() are invoked, one at a time, while the loop task
\* runs and the operator edits the settings.
NextLifecycle ==
    \/ \E op \in {"start", "stop"} : Begin("c1", op)
    \/ CallerStep("c1")
    \/ \E t \in TaskIds : TaskStep(t)
    \/ RepoUpdate

SpecLifecycle == Init /\ [][NextLifecycle]_vars

\* Overlapping invocations: start_backup_task or stop_backup_task is invoked
\* by a second coroutine while an invocation of the first is suspended.  The
\* settings row stays as it is and no awaited call raises.
NextConc ==
    \/ \E op \in Ops : Begin("c1", op)
    \/ \E op \in {"start_backup_task", "stop_backup_task"} : Begin("c2", op)
    \/ \E c \in Callers : CallerRun(c)
    \/ \E t \in TaskIds : TaskRun(t)

SpecConc == Init /\ [][NextConc]_vars

\* The backup task alone, for each interval and unit the settings can hold:
\* start_backup_task() and stop_backup_task() are invoked one at a time, no
\* session is started, the settings row stays as it is.
MaxInterval == 30       \* backup_interval values 1..MaxInterval

IntervalRows ==
    { [enabled |-> FALSE, admin_ids |-> AdminsOne, backup_enabled |-> TRUE,
       backup_interval |-> n, backup_interval_unit |-> unit] :
          n \in 1..MaxInterval, unit \in {"hours", "minutes", "days"} }
    \cup { [enabled |-> FALSE, admin_ids |-> AdminsOne,
            backup_enabled |-> TRUE, backup_interval |-> n] :
               n \in 1..MaxInterval }

InitSchedule ==
    /\ TELEGRAM_AVAILABLE = TRUE
    /\ repo \in IntervalRows
    /\ Constructed
    /\ disk = Host({})

NextSchedule ==
    \/ \E op \in {"start_backup_task", "stop_backup_task"} : Begin("c1", op)
    \/ Return("c1") \/ LoadSettingsOk("c1")
    \/ BackupTaskCallStop("c1") \/ BackupTaskCallLoad("c1")
    \/ BackupTaskCreate("c1")
    \/ StopBackupTaskCancel("c1") \/ StopBackupTaskAwait("c1")
    \/ StopBackupTaskClear("c1")
    \/ \E t \in TaskIds :
          \/ BackupLoopStart(t) \/ BackupLoopCancelled(t)
          \/ BackupLoopLoad(t) \/ BackupLoopWakeInterval(t)

SpecSchedule == InitSchedule /\ [][NextSchedule]_vars

\* A session in which updates are handled: start() is invoked, and later
\* stop(); the settings row stays as it is and no call of the lifecycle
\* raises.
AdminsMixed == <<IntId("1"), StrId("3")>>

HandlerRows ==
    { [enabled |-> TRUE, bot_token |-> "tok", admin_ids |-> ids,
       backup_enabled |-> TRUE, backup_interval |-> 2,
       backup_interval_unit |-> "hours"] : ids \in {AdminsOne, AdminsMixed} }

InitSession(faults) ==
    /\ TELEGRAM_AVAILABLE = TRUE
    /\ repo \in HandlerRows
    /\ Constructed
    /\ disk = Host(faults)

Session ==
    \/ callers["c1"].op = "none" /\ Begin("c1", "start")
    \/ callers["c1"].op = "start" /\ Begin("c1", "stop")
    \/ CallerRun("c1")
    \/ \E t \in TaskIds : TaskRun(t)

\* any update on a host without I/O errors
NextAccess == Session \/ \E h \in Handlers : HandlerStep(h)

SpecAccess == InitSession({}) /\ [][NextAccess]_vars

\* /backup and the button while create_backup can fail at any of its I/O
\* statements and sources are deleted
NextProducer ==
    \/ Session
    \/ \E h \in Handlers : BackupHandlerStep(h)
    \/ SourceRemoved

SpecProducer == InitSession(FailPoints) /\ [][NextProducer]_vars

\* /backup, the button and the loop together while the clock advances
NextArtifacts ==
    \/ Session
    \/ \E h \in Handlers : BackupHandlerStep(h)
    \/ Tick

SpecArtifacts == InitSession({}) /\ [][NextArtifacts]_vars

\* Updates are handled during one session while the operator removes
\* identities from the authorized list of the settings row; the row may
\* have the scheduled backup on or off.
Without(ids, k) ==
    [i \in 1..(Len(ids) - 1) |-> IF i < k THEN ids[i] ELSE ids[i + 1]]

AdminRemoved ==
    /\ cur = Idle
    /\ \E k \in 1..Len(repo.admin_ids) :
          repo' = [repo EXCEPT !.admin_ids = Without(repo.admin_ids, k)]
    /\ UNCHANGED <<aside, disk, bot, apps, tasks, files, callers, cur>>

CacheRows ==
    { [row EXCEPT !.backup_enabled = on] : row \in HandlerRows, on \in BOOLEAN }

InitCache ==
    /\ TELEGRAM_AVAILABLE = TRUE
    /\ repo \in CacheRows
    /\ Constructed
    /\ disk = Host({})

NextCache ==
    \/ Session
    \/ \E t \in TaskIds : BackupLoopWakeFallback(t)
    \/ \E h \in Handlers : HandlerStep(h)
    \/ AdminRemoved

SpecCache == InitCache /\ [][NextCache]_vars

----------------------------------------------------------------------------
(* Properties. *)

\* the invocation of op by c is returning to its invoker
AtReturn(c, op) ==
    /\ callers[c].op = op
    /\ callers[c].pc = "return"
    /\ callers[c].stack = <<"top">>

\* the invocation is ending, by a return or by an exception
Leaving(c, op) ==
    /\ callers[c].op = op
    /\ callers[c].pc \in {"return", "raise"}
    /\ callers[c].stack = <<"top">>

\* not receiving updates, not running, resources released
TornDown(app) == ~app.polling /\ ~app.running /\ ~app.initialized

Receiving == {a \in AppIds : apps[a].polling}

\* C1: whatever the interleaving of start, stop, start_backup_task and
\* stop_backup_task, at most one _backup_loop task is alive and every alive
\* task is the one backup_task refers to.
C1_OneAliveTask ==
    /\ Cardinality(AliveTasks) <= 1
    /\ \A t \in AliveTasks : bot.backup_task = t

\* C2: in a start() that follows a start() that returned True, the first
\* application is fully torn down before the second is built, and when the
\* second start() returns True exactly one application is receiving and at
\* most one loop task is alive.
C2_CleanRestart ==
    \A c \in Callers :
        (callers[c].op = "start" /\ callers[c].restart) =>
            /\ callers[c].my_app # None =>
                  \A a \in AppIds \ {callers[c].my_app} : TornDown(apps[a])
            /\ (AtReturn(c, "start") /\ callers[c].ret = "True") =>
                  /\ Cardinality(Receiving) = 1
                  /\ Cardinality(AliveTasks) <= 1

\* C3: start() with freshly fetched settings that have enabled false or no
\* token returns False (line 73), having built no application, called none,
\* and created no loop task.
C3_DisabledStart ==
    /\ [](\A c \in Callers :
            (callers[c].op = "start" /\ callers[c].ret = "False@73") =>
                /\ ~callers[c].bound
                /\ ~callers[c].spawned
                /\ callers[c].my_app = None)
    /\ [][\A c \in Callers :
            (/\ callers[c].op = "start"
             /\ callers[c].pc = "L71"
             /\ ~(bot.enabled /\ TokenSet(bot.bot_token))
             /\ callers'[c] # callers[c])
            => /\ AtReturn(c, "start")'
               /\ callers'[c].ret = "False@73"
               /\ apps' = apps /\ tasks' = tasks /\ bot' = bot]_vars

C3_Witness ==
    \E c \in Callers :
        /\ AtReturn(c, "start")
        /\ callers[c].ret = "False@73"
        /\ ~bot.enabled

\* C4: when stop() is called while the loop task is running, that task has
\* been cancelled and has finished when stop() returns, and backup_task is
\* None.
C4_StopAwaitsTask ==
    \A c \in Callers :
        (AtReturn(c, "stop") /\ callers[c].victim # None) =>
            /\ tasks[callers[c].victim].pc = "cancelled"
            /\ bot.backup_task = None

C4_Witness ==
    \E c \in Callers : AtReturn(c, "stop") /\ callers[c].victim # None

\* C5: when a binding step of start() fails, start() returns False (line 103)
\* with the transport fully unbound: the application it built is not
\* receiving, not running and released, the handle is None and no loop task
\* is alive.
C5_FailedStartUnbound ==
    \A c \in Callers :
        (AtReturn(c, "start") /\ callers[c].ret = "False@103") =>
            /\ bot.application = None
            /\ AliveTasks = {}
            /\ callers[c].my_app # None => TornDown(apps[callers[c].my_app])

\* C6: stop() never ends by an exception of a teardown step, and when it
\* returns application and backup_task are both None.
C6_StopSwallows ==
    \A c \in Callers :
        Leaving(c, "stop") =>
            /\ callers[c].pc = "return"
            /\ bot.application = None
            /\ bot.backup_task = None

C6_Witness ==
    \E c \in Callers : AtReturn(c, "stop") /\ callers[c].swallowed

\* C7: the loop task never ends of itself: it ends by cancellation only.
C7_LoopEndsByCancelOnly ==
    \A t \in TaskIds : tasks[t].pc # "returned"

\* C8: when the Repository has backup_enabled false at the moment the loop
\* wakes from its interval sleep, the loop skips the cycle: create_backup is
\* not called.
C8_SkipAfterDisable ==
    \A t \in TaskIds : tasks[t].repo_off => tasks[t].cycle = "skipped"

\* C9: while the Repository has backup_enabled false, no step of the loop
\* calls create_backup, whichever sleep it wakes from.
C9_NoBackupWhileDisabled ==
    [][\A t \in TaskIds :
          (/\ ~RepoBackupEnabled
           /\ tasks[t].pc \in {"sleep_fallback", "sleep_interval"}
           /\ tasks'[t].pc \notin {tasks[t].pc, "cancelled", "none"})
          => tasks'[t].cycle \in {"none", "skipped"}]_vars

\* C10 as claimed: a cycle that produced an artifact and ran to its end
\* attempted a delivery to every identity of the list.
C10_EveryIdentityAttempted ==
    \A t \in TaskIds :
        (/\ tasks[t].pc = "await:load"
         /\ tasks[t].cycle \in {"dispatch", "undelivered"})
        => tasks[t].attempted = tasks[t].ids

\* C10, amended: a cycle that produced an artifact while an application was
\* bound and that ran to its end attempted a delivery to every identity of
\* the list, whichever of them failed, and the loop goes on.
C10_EveryIdentityAttemptedWhenBound ==
    \A t \in TaskIds :
        (tasks[t].cycle = "dispatch" /\ tasks[t].pc # "await:L168") =>
            /\ tasks[t].pc = "await:load"
            /\ tasks[t].attempted = tasks[t].ids

C10_Witness ==
    \E t \in TaskIds :
        /\ tasks[t].cycle = "dispatch"
        /\ tasks[t].pc = "await:load"
        /\ tasks[t].ids = AdminsThree
        /\ tasks[t].attempted = AdminsThree


\* an invocation holds the archive: a handler between create_backup and its
\* return, or the loop within the dispatch of a cycle
InUse(path) ==
    \/ \E h \in Handlers :
          handlers[h].pc # "idle" /\ handlers[h].path = path
    \/ \E t \in TaskIds :
          tasks[t].pc = "await:L168" /\ tasks[t].path = path

\* C11: every archive that create_backup returned is deleted by the operation
\* that asked for it (loop cycle, /backup, backup button), whether the
\* transmission succeeded, failed or was not attempted: no returned archive
\* exists once that operation is over.
C11_ArtifactDeleted ==
    \A path \in files : disk.zips[path].returned => InUse(path)


\* the awaits of the handler bodies, which follow the access check
BodyAwaits == {"await:read", "await:creating", "await:send", "await:reply"}

\* C12: the access check admits an identity if and only if its decimal
\* rendering equals the rendering of a member of the authorized list, the
\* members being compared as strings whether stored as strings or numbers.
C12_StringMembership ==
    \A h \in Handlers :
        handlers[h].pc \notin {"idle", "await:answer"} =>
            (handlers[h].pc # "await:deny"
             <=> \E k \in 1..Len(bot.admin_ids) :
                    bot.admin_ids[k].text = ToString(handlers[h].user))

C14_StagingRemoved == ~disk.staging.exists

\* C15: a create_backup call that failed after it had begun to write the
\* archive leaves no archive file: every archive on disk is one whose call
\* returned its path.
C15_NoPartialArchive ==
    \A path \in files : disk.zips[path].returned

\* C20: each create_backup call stages into an empty directory: the archive
\* it returns has no member other than the sources present during that call,
\* whatever earlier calls did.
C20_FreshStaging ==
    \A path \in files :
        disk.zips[path].returned => disk.zips[path].extra = {}


\* C18: the archive of one create_backup call is not touched by another call
\* while the operation that made it still uses it: during the upload of a
\* handler, and during the dispatch of a loop cycle, the archive exists and
\* is the one that operation's own call wrote.
C18_ExclusiveArchive ==
    /\ \A h \in Handlers :
          handlers[h].pc = "await:send" =>
              /\ handlers[h].path \in files
              /\ disk.zips[handlers[h].path].writer = h
    /\ \A t \in TaskIds :
          tasks[t].pc = "await:L168" =>
              /\ tasks[t].path \in files
              /\ disk.zips[tasks[t].path].writer = "loop"


\* C16: start_backup_task() creates a loop task if and only if the settings
\* it has just fetched have backup_enabled true and a non-empty admin_ids;
\* otherwise it leaves no task alive and backup_task None; and a task is
\* created by no step other than line 127 of a start_backup_task() call.
C16_TaskIffEnabled ==
    /\ [](\A c \in Callers :
            LET st == callers[c].stack
                fetched == LoadedFields(repo)
                wanted == fetched.backup_enabled /\ fetched.admin_ids # <<>>
                in_call == \/ callers[c].op = "start_backup_task"
                           \/ st # <<>> /\ st[Len(st)] = "L95"
            IN /\ (in_call /\ callers[c].pc = "L126") =>
                      /\ bot.backup_enabled = fetched.backup_enabled
                      /\ bot.admin_ids = fetched.admin_ids
               /\ (/\ callers[c].pc = "return"
                   /\ \/ AtReturn(c, "start_backup_task")
                      \/ st # <<>> /\ st[Len(st)] = "L95") =>
                      /\ callers[c].spawned <=> wanted
                      /\ callers[c].spawned =>
                            /\ bot.backup_task # None
                            /\ AliveTasks = {bot.backup_task}
                      /\ ~callers[c].spawned =>
                            /\ bot.backup_task = None
                            /\ AliveTasks = {}
               /\ (Leaving(c, "start_backup_task")
                   /\ callers[c].pc = "raise") =>
                      /\ bot.backup_task = None
                      /\ AliveTasks = {})
    /\ [][\A t \in TaskIds :
            (~Alive(t) /\ Alive(t)') =>
                \E c \in Callers : callers[c].pc = "L126"]_vars

C16_Witness ==
    \E c \in Callers :
        /\ AtReturn(c, "start_backup_task")
        /\ ~callers[c].spawned
        /\ ~bot.backup_enabled
        /\ bot.admin_ids # <<>>

\* C17: the interval sleep lasts backup_interval * 3600 seconds when the unit
\* is "hours" and backup_interval * 60 seconds for any other unit: 2 hours
\* give 7200, 30 minutes give 1800.
C17_IntervalSeconds ==
    \A t \in TaskIds :
        tasks[t].pc = "sleep_interval" =>
            LET n == Get(repo, "backup_interval", 60)
                unit == Get(repo, "backup_interval_unit", "minutes")
            IN /\ unit = "hours" => tasks[t].sleep_seconds = n * 3600
               /\ unit # "hours" => tasks[t].sleep_seconds = n * 60
               /\ (n = 2 /\ unit = "hours") => tasks[t].sleep_seconds = 7200
               /\ (n = 30 /\ unit = "minutes") =>
                     tasks[t].sleep_seconds = 1800

C17_Witness ==
    \E t \in TaskIds :
        /\ tasks[t].pc = "sleep_interval"
        /\ Get(repo, "backup_interval", 60) = 2
        /\ Get(repo, "backup_interval_unit", "minutes") = "hours"
        /\ tasks[t].sleep_seconds = 7200

\* C19: once cancel() was called on the loop task, the only step the task
\* takes is to end cancelled: it calls create_backup no more, attempts no
\* delivery and touches no file, whichever await it was suspended in.
C19_NoWorkAfterCancel ==
    [][\A t \in TaskIds :
          (tasks[t].cancel /\ tasks'[t] # tasks[t]) =>
              /\ tasks'[t].pc \in {"cancelled", "none"}
              /\ files' = files
              /\ disk' = disk]_vars

C19_Witness ==
    \E t \in TaskIds :
        /\ tasks[t].cancel
        /\ tasks[t].pc = "sleep_interval"


\* C21: in stop() each step finds the steps before it done: the teardown
\* begins with the loop task ended and backup_task None, application.stop()
\* is called on an application that no longer receives updates, shutdown()
\* on one that is stopped, and the handle is cleared only when the
\* application is torn down; start() builds the new application only when
\* the stop() of line 76 has left no handle and no loop task.
C21_StepOrder ==
    \A c \in Callers :
        /\ callers[c].pc = "L109" =>
              /\ bot.backup_task = None
              /\ AliveTasks = {}
        /\ callers[c].pc = "await:L113" => ~apps[callers[c].app].polling
        /\ callers[c].pc = "await:L114" =>
              /\ ~apps[callers[c].app].polling
              /\ ~apps[callers[c].app].running
        /\ (callers[c].pc = "L118" /\ bot.application # None) =>
              TornDown(apps[bot.application])
        /\ callers[c].pc = "L79" =>
              /\ bot.application = None
              /\ bot.backup_task = None
              /\ AliveTasks = {}


\* start() up to its return at line 73: the entry, the load_settings call of
\* line 69 and the test of line 71 on disabled settings
BeforeStop(c) ==
    /\ callers[c].op = "start"
    /\ \/ callers[c].pc = "L65"
       \/ /\ callers[c].stack = <<"top", "L69">>
          /\ callers[c].pc \in {"await:load", "return"}
       \/ /\ callers[c].pc = "L71"
          /\ ~(bot.enabled /\ TokenSet(bot.bot_token))

\* the fields load_settings assigns (lines 46-53)
Cached(b) == [b EXCEPT !.application = None, !.backup_task = None]

\* C22: a start() made while a session is running that fetches settings
\* with enabled false or no token returns False with the application still
\* bound, initialized, running and receiving updates; up to that return no
\* step of start() changes an application, a loop task, a file or the two
\* handles, and only the load_settings call changes the cached fields.
C22_SessionKept ==
    /\ [](\A c \in Callers :
            (/\ AtReturn(c, "start")
             /\ callers[c].ret = "False@73"
             /\ callers[c].restart) =>
                /\ bot.application # None
                /\ apps[bot.application].polling
                /\ apps[bot.application].running
                /\ apps[bot.application].initialized)
    /\ [][\A c \in Callers :
            (BeforeStop(c) /\ callers'[c] # callers[c]) =>
                /\ apps' = apps
                /\ tasks' = tasks
                /\ files' = files
                /\ disk' = disk
                /\ bot'.application = bot.application
                /\ bot'.backup_task = bot.backup_task
                /\ Cached(bot') # Cached(bot) => callers[c].pc = "await:load"]_vars

C22_Witness ==
    \E c \in Callers :
        /\ AtReturn(c, "start")
        /\ callers[c].ret = "False@73"
        /\ callers[c].restart
        /\ bot.application # None
        /\ apps[bot.application].polling
        /\ bot.backup_task # None
        /\ Alive(bot.backup_task)
        /\ ~bot.enabled


\* what the Repository holds for admin_ids
RepoAdmins == LoadedFields(repo).admin_ids

\* C23: the access check decides by the admin_ids that load_settings cached,
\* whatever the Repository holds by then, and the cached list changes only
\* when a load_settings call of start(), of start_backup_task() or of the
\* loop copies the Repository's list: an identity removed from the
\* Repository is admitted until then, and with no loop task alive and no
\* call made the cached list never changes.
C23_CachedAdmins ==
    /\ [][\A h \in Handlers :
            handlers[h].pc \in {"idle", "await:answer"} =>
                /\ handlers'[h].pc = "await:deny" =>
                      ~is_admin(handlers'[h].user, bot.admin_ids)
                /\ handlers'[h].pc \in BodyAwaits =>
                      is_admin(handlers'[h].user, bot.admin_ids)]_vars
    /\ [][bot'.admin_ids # bot.admin_ids =>
            /\ bot'.admin_ids = RepoAdmins
            /\ \/ \E c \in Callers :
                     /\ callers[c].op \in {"start", "start_backup_task"}
                     /\ callers[c].pc = "await:load"
                     /\ callers'[c].pc = "return"
               \/ \E t \in TaskIds :
                     /\ tasks[t].pc = "await:load"
                     /\ tasks'[t].pc # "await:load"]_vars

C23_Witness ==
    \E h \in Handlers :
        /\ handlers[h].pc \in BodyAwaits
        /\ ~is_admin(handlers[h].user, RepoAdmins)
        /\ AliveTasks = {}
        /\ bot.application # None
        /\ \A c \in Callers : callers[c].pc = "idle"


\* no invocation is in progress
Quiescent == \A c \in Callers : callers[c].pc = "idle"

\* C24: when start() and stop() are the only methods invoked, one at a
\* time, then between invocations backup_task is set only if application is
\* set, a loop task is alive only if application is set, and after a stop()
\* both are None and no loop task is alive.
C24_TaskOnlyWithApplication ==
    Quiescent =>
        /\ bot.backup_task # None => bot.application # None
        /\ AliveTasks # {} => bot.application # None
        /\ \A c \in Callers :
              callers[c].op = "stop" =>
                  /\ bot.backup_task = None
                  /\ bot.application = None
                  /\ AliveTasks = {}

C24_Witness ==
    /\ Quiescent
    /\ callers["c1"].op = "start"
    /\ callers["c1"].ret = "True"
    /\ bot.backup_task # None
    /\ Alive(bot.backup_task)
    /\ bot.application # None

====
